---- MODULE Spec2Model ----
(***************************************************************************)
(* Model of the snippy repository: the chaos injector (src/src/chaos.py)   *)
(* and the polling loop of the stock picker agent                          *)
(* (src/src/agents/stock_picker.py).                                       *)
(*                                                                         *)
(* Strings that the code parses are sequences of one-character strings, so *)
(* that lower(), float() and int() are computed character by character.    *)
(* Python floats are modelled as exact decimal rationals [num, den] in     *)
(* lowest terms, plus the special values inf, -inf and nan.                *)
(***************************************************************************)
EXTENDS Integers, Sequences, FiniteSets, TLC

VARIABLES
    environ,    \* os.environ restricted to the CHAOS_* variables (partial function)
    pc,         \* per invocation slot: "idle", "sleeping", "returned", "raised"
    config,     \* per slot: <<>> or <<config dict>> of the current invocation
    trace,      \* per slot: the side effects of the current invocation, in order
    exc,        \* per slot: the exception that left the current invocation
    apc,        \* generate_stock_analysis: position in the function
    calls,      \* generate_stock_analysis: remote calls made so far, in order
    thread,     \* remote service: messages of the thread, oldest first
    run_status, \* generate_stock_analysis: run.status last observed
    required_action, \* generate_stock_analysis: tool_calls last read from the run
    tool_call_count, \* generate_stock_analysis: local counter
    response,   \* generate_stock_analysis: <<>> or <<returned text>>
    aexc        \* generate_stock_analysis: exception that left the function

chaos_vars == <<environ, pc, config, trace, exc>>
agent_vars == <<apc, calls, thread, run_status, required_action, tool_call_count,
                response, aexc>>
vars == <<environ, pc, config, trace, exc,
          apc, calls, thread, run_status, required_action, tool_call_count,
          response, aexc>>

----------------------------------------------------------------------------
(* Bounds *)

\* random.random() is sampled on the grid {0/K, 1/K, ..., (K-1)/K}
RandomResolution == 4

\* number of get_run polls explored per call of generate_stock_analysis
MaxPolls == 2

\* number of tool calls listed by one requires_action status
MaxToolCalls == 2

----------------------------------------------------------------------------
(* Characters and strings *)

Digits == {"0", "1", "2", "3", "4", "5", "6", "7", "8", "9"}

DigitValue ==
    [c \in Digits |->
        CASE c = "0" -> 0 [] c = "1" -> 1 [] c = "2" -> 2 [] c = "3" -> 3
          [] c = "4" -> 4 [] c = "5" -> 5 [] c = "6" -> 6 [] c = "7" -> 7
          [] c = "8" -> 8 [] c = "9" -> 9]

Whitespace == {" ", "\t", "\n", "\r"}

UpperCase == {"A", "B", "C", "D", "E", "F", "G", "H", "I", "J", "K", "L", "M",
              "N", "O", "P", "Q", "R", "S", "T", "U", "V", "W", "X", "Y", "Z"}

LowerOf ==
    [c \in UpperCase |->
        CASE c = "A" -> "a" [] c = "B" -> "b" [] c = "C" -> "c" [] c = "D" -> "d"
          [] c = "E" -> "e" [] c = "F" -> "f" [] c = "G" -> "g" [] c = "H" -> "h"
          [] c = "I" -> "i" [] c = "J" -> "j" [] c = "K" -> "k" [] c = "L" -> "l"
          [] c = "M" -> "m" [] c = "N" -> "n" [] c = "O" -> "o" [] c = "P" -> "p"
          [] c = "Q" -> "q" [] c = "R" -> "r" [] c = "S" -> "s" [] c = "T" -> "t"
          [] c = "U" -> "u" [] c = "V" -> "v" [] c = "W" -> "w" [] c = "X" -> "x"
          [] c = "Y" -> "y" [] c = "Z" -> "z"]

\* str.lower()
lower(s) == [i \in 1..Len(s) |-> IF s[i] \in UpperCase THEN LowerOf[s[i]] ELSE s[i]]

RECURSIVE lstrip(_)
lstrip(s) == IF s # <<>> /\ Head(s) \in Whitespace THEN lstrip(Tail(s)) ELSE s

RECURSIVE rstrip(_)
rstrip(s) ==
    IF s # <<>> /\ s[Len(s)] \in Whitespace THEN rstrip(SubSeq(s, 1, Len(s) - 1)) ELSE s

\* str.strip(), applied by float() and int() to their argument
strip(s) == rstrip(lstrip(s))

AllDigits(s) == \A i \in 1..Len(s) : s[i] \in Digits

\* value of a sequence of decimal digits
RECURSIVE DigitsToNat(_)
DigitsToNat(s) ==
    IF s = <<>> THEN 0
    ELSE 10 * DigitsToNat(SubSeq(s, 1, Len(s) - 1)) + DigitValue[s[Len(s)]]

RECURSIVE Pow10(_)
Pow10(n) == IF n = 0 THEN 1 ELSE 10 * Pow10(n - 1)

Abs(n) == IF n < 0 THEN -n ELSE n

RECURSIVE GCD(_, _)
GCD(a, b) == IF b = 0 THEN a ELSE GCD(b, a % b)

\* the first index of character c in s, or 0
IndexOf(s, c) ==
    IF \E i \in 1..Len(s) : s[i] = c
    THEN CHOOSE i \in 1..Len(s) : s[i] = c /\ \A j \in 1..(i - 1) : s[j] # c
    ELSE 0

----------------------------------------------------------------------------
(* Python values *)

ValueError == [kind |-> "ValueError", num |-> 0, den |-> 0]
NaN        == [kind |-> "nan", num |-> 0, den |-> 0]
Infinity(sign) == [kind |-> "inf", num |-> sign, den |-> 0]

\* the float num/den, in lowest terms
Finite(n, d) ==
    LET g == GCD(Abs(n), d)
    IN  [kind |-> "float", num |-> n \div g, den |-> d \div g]

\* a < b on floats: every comparison with nan is False
FloatLT(a, b) ==
    IF a.kind = "nan" \/ b.kind = "nan" THEN FALSE
    ELSE IF a.kind = "inf" /\ b.kind = "inf" THEN a.num < b.num
    ELSE IF a.kind = "inf" THEN a.num < 0
    ELSE IF b.kind = "inf" THEN b.num > 0
    ELSE a.num * b.den < b.num * a.den

\* a <= b on floats
FloatLE(a, b) ==
    IF a.kind = "nan" \/ b.kind = "nan" THEN FALSE
    ELSE FloatLT(a, b) \/ a = b

\* the decimal part "digits[.digits]" or ".digits" of a float literal, with
\* its exponent part "e[+-]digits" already split off as the integer ex
DecimalValue(mant, ex, sign) ==
    LET dot  == IndexOf(mant, ".")
        ip   == IF dot = 0 THEN mant ELSE SubSeq(mant, 1, dot - 1)
        fp   == IF dot = 0 THEN <<>> ELSE SubSeq(mant, dot + 1, Len(mant))
    IN  IF ~AllDigits(ip) \/ ~AllDigits(fp) \/ (ip = <<>> /\ fp = <<>>)
        THEN ValueError
        ELSE LET n == sign * (DigitsToNat(ip) * Pow10(Len(fp)) + DigitsToNat(fp))
                 d == Pow10(Len(fp))
             IN  IF ex >= 0 THEN Finite(n * Pow10(ex), d)
                 ELSE Finite(n, d * Pow10(-ex))

\* float(str): surrounding whitespace is stripped; an optional sign; then
\* inf, infinity or nan in any case, or a decimal literal with an optional
\* exponent.  (Digit-group underscores are not in the model's alphabet.)
float(str) ==
    LET s    == strip(str)
        sgn  == IF s # <<>> /\ Head(s) = "-" THEN -1 ELSE 1
        body == IF s # <<>> /\ Head(s) \in {"+", "-"} THEN Tail(s) ELSE s
        low  == lower(body)
        ePos == IndexOf(low, "e")
        mant == IF ePos = 0 THEN low ELSE SubSeq(low, 1, ePos - 1)
        expo == IF ePos = 0 THEN <<>> ELSE SubSeq(low, ePos + 1, Len(low))
        esgn == IF expo # <<>> /\ Head(expo) = "-" THEN -1 ELSE 1
        edig == IF expo # <<>> /\ Head(expo) \in {"+", "-"} THEN Tail(expo) ELSE expo
    IN  IF low \in {<<"i", "n", "f">>, <<"i", "n", "f", "i", "n", "i", "t", "y">>}
        THEN Infinity(sgn)
        ELSE IF low = <<"n", "a", "n">> THEN NaN
        ELSE IF ePos = 0 THEN DecimalValue(mant, 0, sgn)
        ELSE IF edig = <<>> \/ ~AllDigits(edig) THEN ValueError
        ELSE DecimalValue(mant, esgn * DigitsToNat(edig), sgn)

\* int(str): surrounding whitespace is stripped; an optional sign; then one
\* or more decimal digits.  The result is IntValue(n) or ValueError.
IntValue(n) == [kind |-> "int", num |-> n, den |-> 1]

int(str) ==
    LET s    == strip(str)
        sgn  == IF s # <<>> /\ Head(s) = "-" THEN -1 ELSE 1
        body == IF s # <<>> /\ Head(s) \in {"+", "-"} THEN Tail(s) ELSE s
    IN  IF body = <<>> \/ ~AllDigits(body) THEN ValueError
        ELSE IntValue(sgn * DigitsToNat(body))

----------------------------------------------------------------------------
(* chaos.py: configuration *)

CHAOS_ENABLED           == "CHAOS_ENABLED"
CHAOS_INJECT_ERROR_RATE == "CHAOS_INJECT_ERROR_RATE"
CHAOS_DELAY_SECONDS_MAX == "CHAOS_DELAY_SECONDS_MAX"

ChaosVariables == {CHAOS_ENABLED, CHAOS_INJECT_ERROR_RATE, CHAOS_DELAY_SECONDS_MAX}

\* the defaults passed to os.environ.get
DefaultEnabled   == <<"f", "a", "l", "s", "e">>
DefaultErrorRate == <<"0", ".", "1">>
DefaultDelayMax  == <<"5">>

\* the tuple ("true", "1", "yes") of line 25
TruthyStrings == {<<"t", "r", "u", "e">>, <<"1">>, <<"y", "e", "s">>}

\* values the environment may hold for CHAOS_ENABLED
EnabledStrings ==
    { <<"T", "r", "u", "e">>, <<"1">>, <<"Y", "E", "S">>,
      <<"f", "a", "l", "s", "e">>, <<" ", "1">> }

\* values the environment may hold for CHAOS_INJECT_ERROR_RATE
ErrorRateStrings ==
    { <<"0", ".", "0">>, <<"1", ".", "0">>, <<"0", ".", "2", "5">>,
      <<"2">>, <<"n", "a", "n">>, <<"a", "b", "c">> }

\* values the environment may hold for CHAOS_DELAY_SECONDS_MAX
DelayStrings ==
    { <<"0">>, <<"3">>, <<"-", "1">>, <<"2", ".", "5">> }

EnvStrings(name) ==
    CASE name = CHAOS_ENABLED -> EnabledStrings
      [] name = CHAOS_INJECT_ERROR_RATE -> ErrorRateStrings
      [] name = CHAOS_DELAY_SECONDS_MAX -> DelayStrings

\* os.environ.get(name, default)
environ_get(e, name, default) == IF name \in DOMAIN e THEN e[name] ELSE default

NoException == [type |-> "none", message |-> <<>>]

FloatValueError ==
    [type |-> "ValueError",
     message |-> <<"could", "not", "convert", "string", "to", "float">>]

IntValueError ==
    [type |-> "ValueError",
     message |-> <<"invalid", "literal", "for", "int()", "with", "base", "10">>]

\* mutant: CHAOS_ENABLED is compared without lower()
get_chaos_config_case_sensitive(e) ==
    LET enabled == environ_get(e, CHAOS_ENABLED, DefaultEnabled) \in TruthyStrings
        rate    == float(environ_get(e, CHAOS_INJECT_ERROR_RATE, DefaultErrorRate))
        delay   == int(environ_get(e, CHAOS_DELAY_SECONDS_MAX, DefaultDelayMax))
    IN  IF rate.kind = "ValueError" THEN [exc |-> FloatValueError, config |-> <<>>]
        ELSE IF delay.kind = "ValueError" THEN [exc |-> IntValueError, config |-> <<>>]
        ELSE [exc |-> NoException,
              config |-> << [CHAOS_ENABLED |-> enabled,
                             CHAOS_INJECT_ERROR_RATE |-> rate,
                             CHAOS_DELAY_SECONDS_MAX |-> delay.num] >>]

\* mutant: a value that does not parse is replaced by the default
get_chaos_config_lenient(e) ==
    LET enabled == lower(environ_get(e, CHAOS_ENABLED, DefaultEnabled)) \in TruthyStrings
        rate0   == float(environ_get(e, CHAOS_INJECT_ERROR_RATE, DefaultErrorRate))
        delay0  == int(environ_get(e, CHAOS_DELAY_SECONDS_MAX, DefaultDelayMax))
        rate    == IF rate0.kind = "ValueError" THEN float(DefaultErrorRate) ELSE rate0
        delay   == IF delay0.kind = "ValueError" THEN int(DefaultDelayMax) ELSE delay0
    IN  [exc |-> NoException,
         config |-> << [CHAOS_ENABLED |-> enabled,
                        CHAOS_INJECT_ERROR_RATE |-> rate,
                        CHAOS_DELAY_SECONDS_MAX |-> delay.num] >>]

\* get_chaos_config(): the three entries are evaluated in order; float() or
\* int() raising ValueError leaves the function without a dict.
get_chaos_config(e) ==
    LET enabled == lower(environ_get(e, CHAOS_ENABLED, DefaultEnabled)) \in TruthyStrings
        rate    == float(environ_get(e, CHAOS_INJECT_ERROR_RATE, DefaultErrorRate))
        delay   == int(environ_get(e, CHAOS_DELAY_SECONDS_MAX, DefaultDelayMax))
    IN  IF rate.kind = "ValueError" THEN [exc |-> FloatValueError, config |-> <<>>]
        ELSE IF delay.kind = "ValueError" THEN [exc |-> IntValueError, config |-> <<>>]
        ELSE [exc |-> NoException,
              config |-> << [CHAOS_ENABLED |-> enabled,
                             CHAOS_INJECT_ERROR_RATE |-> rate,
                             CHAOS_DELAY_SECONDS_MAX |-> delay.num] >>]

----------------------------------------------------------------------------
(* chaos.py: injection *)

\* the values random.random() can return: the grid points of [0, 1)
RandomSamples == {Finite(k, RandomResolution) : k \in 0..(RandomResolution - 1)}

\* mutant: the sample is offset by b instead of a
uniform_offset_by_b(a, b, r) ==
    Finite(b * r.den + (b - a) * r.num, r.den)

\* random.uniform(a, b) for integers a, b is a + (b - a) * random.random()
uniform(a, b, r) ==
    Finite(a * r.den + (b - a) * r.num, r.den)

ChaosException ==
    [type |-> "ChaosException",
     message |-> <<"Chaos", "engineering:", "simulated", "service", "failure">>]

RandomCall(p)  == [op |-> "random.random", value |-> p]
UniformCall(d) == [op |-> "random.uniform", value |-> d]
SleepCall(d)   == [op |-> "asyncio.sleep", value |-> d]
WarningCall(extra) == [op |-> "logger.warning", value |-> extra]
RaiseCall(e)   == [op |-> "raise", value |-> e]

\* mutant: the comparison with the error rate is not strict
ShouldInjectError_le(probability, error_rate) == FloatLE(probability, error_rate)

\* line 45
ShouldInjectError(probability, error_rate) == FloatLT(probability, error_rate)

\* mutant: a maximum delay of 0 still delays
ShouldDelay_ge(max_delay) == max_delay >= 0

\* line 60
ShouldDelay(max_delay) == max_delay > 0

ErrorEvent(cfg, probability) ==
    WarningCall([event_type |-> "error",
                 probability |-> probability,
                 error_rate |-> cfg.CHAOS_INJECT_ERROR_RATE,
                 chaos_config |-> cfg])

DelayEvent(cfg, probability, delay_seconds) ==
    WarningCall([event_type |-> "delay",
                 delay_seconds |-> delay_seconds,
                 probability |-> probability,
                 error_rate |-> cfg.CHAOS_INJECT_ERROR_RATE,
                 chaos_config |-> cfg])

\* mutant: the synthetic failure is caught inside the injector
ErrorBranch_swallowed(cfg, probability, tr) ==
    [pc |-> "returned",
     trace |-> Append(tr, ErrorEvent(cfg, probability)),
     exc |-> NoException]

\* mutant: the error branch waits out the maximum delay before it raises
ErrorBranch_then_delay(cfg, probability, tr) ==
    [pc |-> "raised",
     trace |-> tr \o << ErrorEvent(cfg, probability),
                        SleepCall(Finite(cfg.CHAOS_DELAY_SECONDS_MAX, 1)),
                        RaiseCall(ChaosException) >>,
     exc |-> ChaosException]

\* lines 46-57: log the "error" event, then raise
ErrorBranch(cfg, probability, tr) ==
    [pc |-> "raised",
     trace |-> tr \o << ErrorEvent(cfg, probability), RaiseCall(ChaosException) >>,
     exc |-> ChaosException]

\* mutant: the delay blocks the thread: the call runs through its sleep
\* without a suspension point
DelayBranch_blocking(cfg, probability, r, tr) ==
    LET delay_seconds == uniform(0, cfg.CHAOS_DELAY_SECONDS_MAX, r)
    IN  [pc |-> "returned",
         trace |-> tr \o << UniformCall(delay_seconds),
                            DelayEvent(cfg, probability, delay_seconds),
                            SleepCall(delay_seconds) >>,
         exc |-> NoException]

\* mutant: the "delay" event is logged after the sleep
DelayBranch_log_after(cfg, probability, r, tr) ==
    LET delay_seconds == uniform(0, cfg.CHAOS_DELAY_SECONDS_MAX, r)
    IN  [pc |-> "sleeping",
         trace |-> tr \o << UniformCall(delay_seconds),
                            SleepCall(delay_seconds),
                            DelayEvent(cfg, probability, delay_seconds) >>,
         exc |-> NoException]

\* lines 61-74: sample the delay, log the "delay" event, then await the sleep
DelayBranch(cfg, probability, r, tr) ==
    LET delay_seconds == uniform(0, cfg.CHAOS_DELAY_SECONDS_MAX, r)
    IN  [pc |-> "sleeping",
         trace |-> tr \o << UniformCall(delay_seconds),
                            DelayEvent(cfg, probability, delay_seconds),
                            SleepCall(delay_seconds) >>,
         exc |-> NoException]

\* mutant: the random sample is drawn before the enabled check
InjectWithConfig_draw_first(cfg, r1, r2) ==
    LET probability == r1
        error_rate  == cfg.CHAOS_INJECT_ERROR_RATE
        max_delay   == cfg.CHAOS_DELAY_SECONDS_MAX
        tr          == << RandomCall(probability) >>
    IN  IF ~cfg.CHAOS_ENABLED
        THEN [pc |-> "returned", trace |-> tr, exc |-> NoException]
        ELSE IF ShouldInjectError(probability, error_rate)
             THEN ErrorBranch(cfg, probability, tr)
             ELSE IF ShouldDelay(max_delay)
                  THEN DelayBranch(cfg, probability, r2, tr)
                  ELSE [pc |-> "returned", trace |-> tr, exc |-> NoException]

\* lines 36-74, given the config dict: r1 and r2 are the next two values of
\* the random-number stream, consumed only where the code draws
InjectWithConfig(cfg, r1, r2) ==
    IF ~cfg.CHAOS_ENABLED
    THEN [pc |-> "returned", trace |-> <<>>, exc |-> NoException]
    ELSE LET probability == r1
             error_rate  == cfg.CHAOS_INJECT_ERROR_RATE
             max_delay   == cfg.CHAOS_DELAY_SECONDS_MAX
             tr          == << RandomCall(probability) >>
         IN  IF ShouldInjectError(probability, error_rate)
             THEN ErrorBranch(cfg, probability, tr)
             ELSE IF ShouldDelay(max_delay)
                  THEN DelayBranch(cfg, probability, r2, tr)
                  ELSE [pc |-> "returned", trace |-> tr, exc |-> NoException]

\* lines 33-74, given the result of get_chaos_config()
InjectOutcome(loaded, r1, r2) ==
    IF loaded.config = <<>>
    THEN [pc |-> "raised", config |-> <<>>, trace |-> << RaiseCall(loaded.exc) >>,
          exc |-> loaded.exc]
    ELSE LET out == InjectWithConfig(loaded.config[1], r1, r2)
         IN  [pc |-> out.pc, config |-> loaded.config, trace |-> out.trace,
              exc |-> out.exc]

\* mutant: the config dict of the slot's previous call is reused
inject_chaos_cached(t, r1, r2) ==
    /\ pc[t] # "sleeping"
    /\ LET loaded == IF config[t] # <<>>
                     THEN [exc |-> NoException, config |-> config[t]]
                     ELSE get_chaos_config(environ)
           out == InjectOutcome(loaded, r1, r2)
       IN  /\ pc' = [pc EXCEPT ![t] = out.pc]
           /\ config' = [config EXCEPT ![t] = out.config]
           /\ trace' = [trace EXCEPT ![t] = out.trace]
           /\ exc' = [exc EXCEPT ![t] = out.exc]
    /\ UNCHANGED environ
    /\ UNCHANGED agent_vars

\* one call of inject_chaos_if_enabled() in slot t, run up to its first
\* suspension point (the await of asyncio.sleep) or to its end
inject_chaos_if_enabled(t, r1, r2) ==
    /\ pc[t] # "sleeping"
    /\ LET out == InjectOutcome(get_chaos_config(environ), r1, r2)
       IN  /\ pc' = [pc EXCEPT ![t] = out.pc]
           /\ config' = [config EXCEPT ![t] = out.config]
           /\ trace' = [trace EXCEPT ![t] = out.trace]
           /\ exc' = [exc EXCEPT ![t] = out.exc]
    /\ UNCHANGED environ
    /\ UNCHANGED agent_vars

\* asyncio.sleep completes and the coroutine returns None
SleepDone(t) ==
    /\ pc[t] = "sleeping"
    /\ pc' = [pc EXCEPT ![t] = "returned"]
    /\ UNCHANGED <<environ, config, trace, exc>>
    /\ UNCHANGED agent_vars

\* os.environ[name] = value, as the tests do through patch.dict
SetEnv(name, value) ==
    /\ environ' = [n \in (DOMAIN environ) \cup {name} |->
                      IF n = name THEN value ELSE environ[n]]
    /\ UNCHANGED <<pc, config, trace, exc>>
    /\ UNCHANGED agent_vars

\* del os.environ[name]
UnsetEnv(name) ==
    /\ name \in DOMAIN environ
    /\ environ' = [n \in (DOMAIN environ) \ {name} |-> environ[n]]
    /\ UNCHANGED <<pc, config, trace, exc>>
    /\ UNCHANGED agent_vars

----------------------------------------------------------------------------
(* agents/stock_picker.py: generate_stock_analysis *)

\* run.status values the remote service reports
Statuses == {"in_progress", "requires_action", "completed", "failed", "expired"}

\* ids of the tool calls a requires_action status may list
ToolCallIds == {"call_a", "call_b"}

\* the lists run.required_action.submit_tool_outputs.tool_calls may hold
ToolCallLists ==
    UNION {[1..n -> ToolCallIds] : n \in 0..MaxToolCalls}

\* arguments of generate_stock_analysis
ChatHistories == {"", "history"}
UserQueries   == {"", "query"}

\* line 138
DefaultQuery == "Generate a comprehensive stock analysis and investment recommendations."

\* messages the agent may add to the thread while the run executes; the
\* content of a message is its list of parts
AgentReplies ==
    { <<>>,
      << [role |-> "assistant", content |-> <<"draft">>] >>,
      << [role |-> "assistant", content |-> <<"report", "disclaimer">>] >> }

Call(op, arg) == [op |-> op, arg |-> arg]

RemoteError(op) == [type |-> "Exception", message |-> <<op>>]

\* line 164
RunFailed == [type |-> "Exception", message |-> <<"Agent", "run", "failed">>]

\* lines 137-138
final_query(user_query) == IF user_query # "" THEN user_query ELSE DefaultQuery

\* lines 101-151: the calls made before the polling loop, in order
SetupCalls(chat_history, user_query) ==
    << Call("DefaultAzureCredential", <<>>),
       Call("from_connection_string", <<>>),
       Call("create_agent", <<"StockPickerPro">>),
       Call("create_thread", <<>>) >>
    \o (IF chat_history # "" THEN << Call("create_message", <<chat_history>>) >>
        ELSE <<>>)
    \o << Call("create_message", <<final_query(user_query)>>),
          Call("create_run", <<>>) >>

\* the messages that the successful create_message calls of cs post
RECURSIVE PostedMessages(_)
PostedMessages(cs) ==
    IF cs = <<>> THEN <<>>
    ELSE (IF Head(cs).op = "create_message"
          THEN << [role |-> "user", content |-> Head(cs).arg] >>
          ELSE <<>>) \o PostedMessages(Tail(cs))

\* project_client.agents.list_messages: the service lists the newest first
list_messages(th) == [i \in 1..Len(th) |-> th[Len(th) + 1 - i]]

\* mutant: the last listed message is read instead of the first
ResponseText_last_listed(data) == data[Len(data)].content[1]

\* line 191: messages.data[0].content[0].text.value
ResponseText(data) == data[1].content[1]

\* functions.execute(tool_call): the output of the vector search for the call
execute(tool_call) == <<"output", tool_call>>

\* mutant: each output is paired with the id of the call at the mirrored position
ToolOutputs_mispaired(tool_calls) ==
    [i \in 1..Len(tool_calls) |->
        [tool_call_id |-> tool_calls[Len(tool_calls) + 1 - i],
         output |-> execute(tool_calls[i])]]

\* lines 169-181: one entry per tool call, in listed order
ToolOutputs(tool_calls) ==
    [i \in 1..Len(tool_calls) |->
        [tool_call_id |-> tool_calls[i], output |-> execute(tool_calls[i])]]

\* lines 170-186: the calls made on requires_action, in order
ActionCalls(tool_calls) ==
    [i \in 1..Len(tool_calls) |-> Call("execute", <<tool_calls[i]>>)]
    \o << Call("submit_tool_outputs_to_run", ToolOutputs(tool_calls)) >>

\* lines 156-186: the calls of one loop iteration that observes status
IterationCalls(status, tool_calls) ==
    << Call("get_run", <<>>) >>
    \o (IF status = "requires_action" THEN ActionCalls(tool_calls) ELSE <<>>)

NumCalls(op) == Cardinality({i \in 1..Len(calls) : calls[i].op = op})

\* mutant: a failed run is polled again
NextPosition_retry_failed(status) ==
    IF status = "completed" THEN "completed" ELSE "polling"

\* mutant: an expired run ends the loop like a failed one
NextPosition_expired_ends(status) ==
    IF status = "completed" THEN "completed"
    ELSE IF status \in {"failed", "expired"} THEN "raised"
    ELSE "polling"

\* lines 159-165: where the loop goes after observing status: break on
\* completed, raise on failed, next iteration otherwise
NextPosition(status) ==
    IF status = "completed" THEN "completed"
    ELSE IF status = "failed" THEN "raised"
    ELSE "polling"

\* lines 87-151: everything up to the polling loop.  failAt = 0 when no call
\* raises, otherwise the position of the call that raises; the except
\* clause of lines 196-198 logs and re-raises.
StartAnalysis(chat_history, user_query, failAt) ==
    /\ apc = "idle"
    /\ LET cs == SetupCalls(chat_history, user_query)
       IN  /\ failAt \in 0..Len(cs)
           /\ IF failAt = 0
              THEN /\ calls' = cs
                   /\ thread' = PostedMessages(cs)
                   /\ apc' = "polling"
                   /\ aexc' = NoException
              ELSE /\ calls' = SubSeq(cs, 1, failAt)
                   /\ thread' = PostedMessages(SubSeq(cs, 1, failAt - 1))
                   /\ apc' = "raised"
                   /\ aexc' = RemoteError(cs[failAt].op)
    /\ tool_call_count' = 0
    /\ UNCHANGED <<run_status, required_action, response>>
    /\ UNCHANGED chaos_vars

\* lines 155-186: one iteration of the polling loop.  The service has added
\* reply to the thread and reports status (with tool_calls when the status
\* is requires_action); failAt as in StartAnalysis.
Poll(status, tool_calls, reply, failAt) ==
    /\ apc = "polling"
    /\ NumCalls("get_run") < MaxPolls
    /\ LET cs == IterationCalls(status, tool_calls)
       IN  /\ failAt \in 0..Len(cs)
           /\ thread' = thread \o reply
           /\ required_action' = IF status = "requires_action" /\ failAt # 1
                                 THEN tool_calls ELSE required_action
           /\ IF failAt = 0
              THEN /\ calls' = calls \o cs
                   /\ run_status' = status
                   /\ tool_call_count' =
                          IF status = "requires_action"
                          THEN tool_call_count + Len(tool_calls)
                          ELSE tool_call_count
                   /\ apc' = NextPosition(status)
                   /\ aexc' = IF status = "failed" THEN RunFailed ELSE NoException
              ELSE /\ calls' = calls \o SubSeq(cs, 1, failAt)
                   /\ run_status' = IF failAt = 1 THEN run_status ELSE status
                   /\ tool_call_count' = tool_call_count + (IF failAt = 1 THEN 0
                                             ELSE IF failAt - 1 <= Len(tool_calls)
                                             THEN failAt - 2 ELSE Len(tool_calls))
                   /\ apc' = "raised"
                   /\ aexc' = RemoteError(cs[failAt].op)
    /\ UNCHANGED response
    /\ UNCHANGED chaos_vars

\* lines 188-194 after the loop's break: fetch the messages and return the
\* response; raises is TRUE when list_messages raises
FetchResponse(raises) ==
    /\ apc = "completed"
    /\ calls' = Append(calls, Call("list_messages", <<>>))
    /\ IF raises
       THEN /\ apc' = "raised"
            /\ aexc' = RemoteError("list_messages")
            /\ UNCHANGED response
       ELSE /\ apc' = "returned"
            /\ response' = << ResponseText(list_messages(thread)) >>
            /\ UNCHANGED aexc
    /\ UNCHANGED <<thread, run_status, required_action, tool_call_count>>
    /\ UNCHANGED chaos_vars

----------------------------------------------------------------------------
(* Specifications *)

Init ==
    /\ environ = [n \in {} |-> <<>>]
    /\ pc = [t \in {1} |-> "idle"]
    /\ config = [t \in {1} |-> <<>>]
    /\ trace = [t \in {1} |-> <<>>]
    /\ exc = [t \in {1} |-> NoException]
    /\ apc = "idle"
    /\ calls = <<>>
    /\ thread = <<>>
    /\ run_status = "none"
    /\ required_action = <<>>
    /\ tool_call_count = 0
    /\ response = <<>>
    /\ aexc = NoException

\* the chaos injector under a changing environment
Next ==
    \/ \E t \in DOMAIN pc : \E r1 \in RandomSamples : \E r2 \in RandomSamples :
           inject_chaos_if_enabled(t, r1, r2)
    \/ \E t \in DOMAIN pc : SleepDone(t)
    \/ \E name \in ChaosVariables : \E value \in EnvStrings(name) : SetEnv(name, value)
    \/ \E name \in ChaosVariables : UnsetEnv(name)

Spec == Init /\ [][Next]_vars

\* two tasks of one event loop that call inject_chaos_if_enabled, with chaos
\* enabled and a maximum delay of 3 in the environment
InitConcurrent ==
    /\ environ = [n \in {CHAOS_ENABLED, CHAOS_DELAY_SECONDS_MAX} |->
                      IF n = CHAOS_ENABLED THEN <<"1">> ELSE <<"3">>]
    /\ pc = [t \in {1, 2} |-> "idle"]
    /\ config = [t \in {1, 2} |-> <<>>]
    /\ trace = [t \in {1, 2} |-> <<>>]
    /\ exc = [t \in {1, 2} |-> NoException]
    /\ apc = "idle"
    /\ calls = <<>>
    /\ thread = <<>>
    /\ run_status = "none"
    /\ required_action = <<>>
    /\ tool_call_count = 0
    /\ response = <<>>
    /\ aexc = NoException

\* the tasks interleave at their suspension points; the error rate may be
\* changed between their steps
NextConcurrent ==
    \/ \E t \in DOMAIN pc : \E r1 \in RandomSamples : \E r2 \in RandomSamples :
           inject_chaos_if_enabled(t, r1, r2)
    \/ \E t \in DOMAIN pc : SleepDone(t)
    \/ \E value \in {<<"0", ".", "0">>, <<"1", ".", "0">>} :
           SetEnv(CHAOS_INJECT_ERROR_RATE, value)

SpecConcurrent == InitConcurrent /\ [][NextConcurrent]_vars

\* one call of generate_stock_analysis against the remote service
NextAgent ==
    \/ \E h \in ChatHistories : \E q \in UserQueries : \E f \in 0..7 :
           StartAnalysis(h, q, f)
    \/ \E s \in Statuses : \E tc \in ToolCallLists : \E r \in AgentReplies :
       \E f \in 0..(MaxToolCalls + 2) :
           Poll(s, tc, r, f)
    \/ \E raises \in BOOLEAN : FetchResponse(raises)

SpecAgent == Init /\ [][NextAgent]_vars

\* the loop of lines 155-186 takes its next iteration
PollStep ==
    \E s \in Statuses : \E tc \in ToolCallLists : \E r \in AgentReplies :
    \E f \in 0..(MaxToolCalls + 2) :
        Poll(s, tc, r, f)

\* the function goes on after the loop's break
FetchStep == \E raises \in BOOLEAN : FetchResponse(raises)

\* generate_stock_analysis as a coroutine that is resumed whenever the
\* remote call it awaits has answered or raised
SpecAgentFair ==
    Init /\ [][NextAgent]_vars /\ WF_vars(PollStep) /\ WF_vars(FetchStep)

----------------------------------------------------------------------------
(* Observations on one invocation of inject_chaos_if_enabled *)

Slots == DOMAIN pc

\* the positions of the effects op in the trace of slot t
Positions(t, op) == {i \in 1..Len(trace[t]) : trace[t][i].op = op}

Draws(t)  == Positions(t, "random.random") \cup Positions(t, "random.uniform")
Sleeps(t) == Positions(t, "asyncio.sleep")
Events(t) == Positions(t, "logger.warning")

EventsOfType(t, type) == {i \in Events(t) : trace[t][i].value.event_type = type}

\* slot t holds an invocation that loaded its configuration
Loaded(t) == pc[t] # "idle" /\ config[t] # <<>>

Raised(t, type) == pc[t] = "raised" /\ exc[t].type = type

\* the invocation of slot t has not raised: it is suspended in its sleep
\* or has returned
NotRaised(t) == pc[t] \in {"sleeping", "returned"} /\ exc[t] = NoException

\* the words of sub occur consecutively in msg
Contains(msg, sub) ==
    \E k \in 0..(Len(msg) - Len(sub)) : \A i \in 1..Len(sub) : msg[k + i] = sub[i]

Zero == Finite(0, 1)
One  == Finite(1, 1)

----------------------------------------------------------------------------
(* Claims on the chaos injector *)

\* C1: an invocation whose configuration has CHAOS_ENABLED false returns
\* normally, whatever the error rate and the maximum delay: no exception,
\* no sleep, no log event and no draw from the random-number source.
C1_DisabledIsNoOp ==
    \A t \in Slots :
        Loaded(t) /\ ~config[t][1].CHAOS_ENABLED =>
            /\ pc[t] = "returned"
            /\ exc[t] = NoException
            /\ Sleeps(t) = {}
            /\ Events(t) = {}
            /\ Draws(t) = {}

C1_Witness ==
    \E t \in Slots :
        /\ Loaded(t)
        /\ ~config[t][1].CHAOS_ENABLED
        /\ config[t][1].CHAOS_INJECT_ERROR_RATE = One
        /\ config[t][1].CHAOS_DELAY_SECONDS_MAX > 0
        /\ pc[t] = "returned"

\* C2: with chaos enabled and an error rate of 1.0 every invocation, for
\* every sample p and every maximum delay, raises ChaosException with a
\* message containing "simulated service failure", and the exception leaves
\* the injector: it is raised once, after one draw, with no sleep.
C2_RateOneAlwaysRaises ==
    \A t \in Slots :
        Loaded(t) /\ config[t][1].CHAOS_ENABLED
                  /\ config[t][1].CHAOS_INJECT_ERROR_RATE = One =>
            /\ Raised(t, "ChaosException")
            /\ Contains(exc[t].message, <<"simulated", "service", "failure">>)
            /\ trace[t][Len(trace[t])] = RaiseCall(exc[t])
            /\ Cardinality(Positions(t, "raise")) = 1
            /\ Cardinality(Draws(t)) = 1
            /\ Sleeps(t) = {}

C2_Witness ==
    \E t \in Slots :
        /\ Loaded(t)
        /\ config[t][1].CHAOS_ENABLED
        /\ config[t][1].CHAOS_INJECT_ERROR_RATE = One
        /\ config[t][1].CHAOS_DELAY_SECONDS_MAX > 0
        /\ Raised(t, "ChaosException")
        /\ trace[t][1] = RandomCall(Finite(RandomResolution - 1, RandomResolution))

\* C3: with chaos enabled, an error rate of 0.0 and a maximum delay D > 0,
\* every invocation calls the sleep primitive exactly once, with a sampled
\* value d such that 0 <= d <= D, and does not raise.
C3_DelayOnceWithinBound ==
    \A t \in Slots :
        Loaded(t) /\ config[t][1].CHAOS_ENABLED
                  /\ config[t][1].CHAOS_INJECT_ERROR_RATE = Zero
                  /\ config[t][1].CHAOS_DELAY_SECONDS_MAX > 0 =>
            /\ NotRaised(t)
            /\ Positions(t, "raise") = {}
            /\ Cardinality(Sleeps(t)) = 1
            /\ \A i \in Sleeps(t) :
                   /\ FloatLE(Zero, trace[t][i].value)
                   /\ FloatLE(trace[t][i].value,
                              Finite(config[t][1].CHAOS_DELAY_SECONDS_MAX, 1))
                   /\ \E j \in Positions(t, "random.uniform") :
                          j < i /\ trace[t][j].value = trace[t][i].value

C3_Witness ==
    \E t \in Slots :
        /\ Loaded(t)
        /\ config[t][1].CHAOS_ENABLED
        /\ config[t][1].CHAOS_INJECT_ERROR_RATE = Zero
        /\ config[t][1].CHAOS_DELAY_SECONDS_MAX = 3
        /\ pc[t] = "returned"
        /\ \E i \in Sleeps(t) : FloatLT(Finite(2, 1), trace[t][i].value)

\* C4: with chaos enabled, an error rate of 0.0 and a maximum delay of 0,
\* every invocation returns without raising, without calling the sleep
\* primitive and without a log event.
C4_NoErrorNoDelayReturns ==
    \A t \in Slots :
        Loaded(t) /\ config[t][1].CHAOS_ENABLED
                  /\ config[t][1].CHAOS_INJECT_ERROR_RATE = Zero
                  /\ config[t][1].CHAOS_DELAY_SECONDS_MAX = 0 =>
            /\ pc[t] = "returned"
            /\ exc[t] = NoException
            /\ Positions(t, "raise") = {}
            /\ Sleeps(t) = {}
            /\ Events(t) = {}

C4_Witness ==
    \E t \in Slots :
        /\ Loaded(t)
        /\ config[t][1].CHAOS_ENABLED
        /\ config[t][1].CHAOS_INJECT_ERROR_RATE = Zero
        /\ config[t][1].CHAOS_DELAY_SECONDS_MAX = 0
        /\ pc[t] = "returned"
        /\ trace[t] = << RandomCall(Zero) >>

\* C5: in one invocation the error branch and the delay branch are never
\* both taken: an invocation that raises ChaosException has not called the
\* sleep primitive, and one that called the sleep primitive does not raise
\* ChaosException.
C5_ErrorAndDelayExclusive ==
    \A t \in Slots :
        /\ Raised(t, "ChaosException") => Sleeps(t) = {}
        /\ Sleeps(t) # {} => /\ NotRaised(t)
                             /\ Positions(t, "raise") = {}
                             /\ EventsOfType(t, "error") = {}

C5_Witness ==
    \E t \in Slots :
        /\ Raised(t, "ChaosException")
        /\ config[t][1].CHAOS_DELAY_SECONDS_MAX > 0
        /\ config[t][1].CHAOS_INJECT_ERROR_RATE = Finite(1, 4)
        /\ Sleeps(t) = {}

\* a and b are equal up to the case of their letters
CaseInsensitiveEqual(a, b) ==
    /\ Len(a) = Len(b)
    /\ \A i \in 1..Len(a) :
           \/ a[i] = b[i]
           \/ a[i] \in UpperCase /\ LowerOf[a[i]] = b[i]
           \/ b[i] \in UpperCase /\ LowerOf[b[i]] = a[i]

\* C6: get_chaos_config yields, for each variable, the parse of its value
\* when set and of its default otherwise: no variable set gives enabled =
\* false, error rate = 0.1, maximum delay = 5; CHAOS_ENABLED is true exactly
\* when its value equals "true", "1" or "yes" up to case; the values "0.25"
\* and "3" give exactly 0.25 and 3.
C6_ConfigParsing ==
    LET loaded == get_chaos_config(environ)
        isSet(name) == name \in DOMAIN environ
    IN  /\ DOMAIN environ = {} =>
               loaded.config = << [CHAOS_ENABLED |-> FALSE,
                                   CHAOS_INJECT_ERROR_RATE |->
                                       [kind |-> "float", num |-> 1, den |-> 10],
                                   CHAOS_DELAY_SECONDS_MAX |-> 5] >>
        /\ loaded.config # <<>> =>
               LET cfg == loaded.config[1]
               IN  /\ cfg.CHAOS_ENABLED <=>
                          /\ isSet(CHAOS_ENABLED)
                          /\ \E w \in {<<"t", "r", "u", "e">>, <<"1">>, <<"y", "e", "s">>} :
                                 CaseInsensitiveEqual(environ[CHAOS_ENABLED], w)
                   /\ ~isSet(CHAOS_INJECT_ERROR_RATE) =>
                          cfg.CHAOS_INJECT_ERROR_RATE =
                              [kind |-> "float", num |-> 1, den |-> 10]
                   /\ ~isSet(CHAOS_DELAY_SECONDS_MAX) => cfg.CHAOS_DELAY_SECONDS_MAX = 5
                   /\ isSet(CHAOS_INJECT_ERROR_RATE)
                          /\ environ[CHAOS_INJECT_ERROR_RATE] = <<"0", ".", "2", "5">> =>
                          cfg.CHAOS_INJECT_ERROR_RATE =
                              [kind |-> "float", num |-> 1, den |-> 4]
                   /\ isSet(CHAOS_DELAY_SECONDS_MAX)
                          /\ environ[CHAOS_DELAY_SECONDS_MAX] = <<"3">> =>
                          cfg.CHAOS_DELAY_SECONDS_MAX = 3

C6_Witness ==
    /\ DOMAIN environ = ChaosVariables
    /\ environ[CHAOS_ENABLED] = <<"T", "r", "u", "e">>
    /\ environ[CHAOS_INJECT_ERROR_RATE] = <<"0", ".", "2", "5">>
    /\ environ[CHAOS_DELAY_SECONDS_MAX] = <<"3">>
    /\ \E t \in Slots :
           /\ pc[t] # "idle"
           /\ config[t] = << [CHAOS_ENABLED |-> TRUE,
                              CHAOS_INJECT_ERROR_RATE |->
                                  [kind |-> "float", num |-> 1, den |-> 4],
                              CHAOS_DELAY_SECONDS_MAX |-> 3] >>

\* the step starts a call of inject_chaos_if_enabled in slot t
Invokes(t) ==
    /\ pc[t] # "sleeping"
    /\ <<pc'[t], config'[t], trace'[t], exc'[t]>> # <<pc[t], config[t], trace[t], exc[t]>>

\* C7: the configuration is read afresh by every invocation: an invocation
\* uses the configuration that the environment holds when it starts,
\* whatever earlier invocations have seen, and a change of the environment
\* while an invocation sleeps does not touch that invocation.
C7_ConfigReadFresh ==
    [][\A t \in Slots :
          /\ Invokes(t) =>
                 LET loaded == get_chaos_config(environ)
                 IN  /\ config'[t] = loaded.config
                     /\ loaded.config = <<>> =>
                            pc'[t] = "raised" /\ exc'[t] = loaded.exc
                     /\ loaded.config # <<>> =>
                            /\ loaded.config[1].CHAOS_ENABLED <=> trace'[t] # <<>>
                            /\ \A i \in 1..Len(trace'[t]) :
                                   trace'[t][i].op = "logger.warning" =>
                                       trace'[t][i].value.chaos_config = loaded.config[1]
          /\ pc[t] = "sleeping" =>
                 /\ config'[t] = config[t]
                 /\ trace'[t] = trace[t]
                 /\ exc'[t] = exc[t]
      ]_vars

C7_Witness ==
    \E t \in Slots :
        /\ CHAOS_ENABLED \in DOMAIN environ
        /\ CHAOS_INJECT_ERROR_RATE \in DOMAIN environ
        /\ Loaded(t)
        /\ config[t] = get_chaos_config(environ).config
        /\ config[t][1].CHAOS_ENABLED
        /\ Raised(t, "ChaosException")

\* the environment holds a numeric value that does not parse
Malformed(e) ==
    \/ /\ CHAOS_INJECT_ERROR_RATE \in DOMAIN e
       /\ float(e[CHAOS_INJECT_ERROR_RATE]).kind = "ValueError"
    \/ /\ CHAOS_DELAY_SECONDS_MAX \in DOMAIN e
       /\ int(e[CHAOS_DELAY_SECONDS_MAX]).kind = "ValueError"

\* C8: a malformed numeric value fails fast: an invocation started while
\* CHAOS_INJECT_ERROR_RATE does not parse as a float or
\* CHAOS_DELAY_SECONDS_MAX does not parse as an integer ends in the parse
\* error, raised during the configuration load, before any random draw, log
\* event or delay, and with no default substituted.
C8_MalformedFailsFast ==
    [][\A t \in Slots :
          /\ Invokes(t) /\ Malformed(environ) =>
                 /\ pc'[t] = "raised"
                 /\ exc'[t].type = "ValueError"
                 /\ config'[t] = <<>>
                 /\ trace'[t] = << RaiseCall(exc'[t]) >>
          /\ exc'[t].type = "ValueError" =>
                 /\ pc'[t] = "raised"
                 /\ config'[t] = <<>>
                 /\ \A i \in 1..Len(trace'[t]) : trace'[t][i].op = "raise"
      ]_vars

C8_Witness ==
    \E t \in Slots :
        /\ CHAOS_ENABLED \in DOMAIN environ
        /\ environ[CHAOS_ENABLED] = <<"1">>
        /\ CHAOS_INJECT_ERROR_RATE \in DOMAIN environ
        /\ environ[CHAOS_INJECT_ERROR_RATE] = <<"a", "b", "c">>
        /\ Raised(t, "ValueError")
        /\ config[t] = <<>>
        /\ Draws(t) = {}

\* C9: log events are emitted on injection only: exactly one "error" event
\* if and only if the invocation raises ChaosException, exactly one "delay"
\* event if and only if it calls the sleep primitive, with delay_seconds
\* equal to the value slept, and no event when chaos is disabled or both
\* branches are skipped; the event precedes the raise or the sleep.
C9_EventsOnInjectionOnly ==
    \A t \in Slots :
        /\ Events(t) = EventsOfType(t, "error") \cup EventsOfType(t, "delay")
        /\ Cardinality(EventsOfType(t, "error")) =
               IF Raised(t, "ChaosException") THEN 1 ELSE 0
        /\ Cardinality(EventsOfType(t, "delay")) = IF Sleeps(t) # {} THEN 1 ELSE 0
        /\ \A i \in EventsOfType(t, "error") :
               \E j \in Positions(t, "raise") : i < j
        /\ \A j \in Sleeps(t) :
               \E i \in EventsOfType(t, "delay") :
                   i < j /\ trace[t][i].value.delay_seconds = trace[t][j].value
        /\ Loaded(t) /\ ~config[t][1].CHAOS_ENABLED => Events(t) = {}
        /\ pc[t] = "returned" /\ Sleeps(t) = {} => Events(t) = {}

C9_Witness ==
    \E t \in Slots :
        /\ pc[t] = "returned"
        /\ Sleeps(t) # {}
        /\ \E i \in EventsOfType(t, "delay") :
               FloatLT(Zero, trace[t][i].value.delay_seconds)

----------------------------------------------------------------------------
(* Claims on generate_stock_analysis *)

\* C10: once the polling loop has observed the status "completed" it polls
\* no more (no further get_run, execute or submit_tool_outputs_to_run call):
\* the only call that follows is one list_messages, and the function then
\* returns the text of the last message of the thread, whatever statuses
\* were observed before.
C10_CompletedStopsPolling ==
    [][/\ run_status = "completed" =>
              /\ NumCalls("list_messages") = 0
              /\ calls' = Append(calls, Call("list_messages", <<>>))
              /\ run_status' = "completed"
              /\ thread' = thread
              /\ apc' \in {"returned", "raised"}
       /\ apc' = "returned" =>
              /\ run_status' = "completed"
              /\ calls'[Len(calls')].op = "list_messages"
              /\ response' = << thread'[Len(thread')].content[1] >>
      ]_vars

C10_Witness ==
    /\ apc = "returned"
    /\ NumCalls("get_run") = 2
    /\ NumCalls("submit_tool_outputs_to_run") = 1
    /\ NumCalls("list_messages") = 1
    /\ Len(thread) = 3
    /\ response = <<"report">>

\* the calls that the step adds to the record of calls
NewCalls == SubSeq(calls', Len(calls) + 1, Len(calls'))

\* C11: each time the loop observes requires_action it executes every
\* listed tool call once, in listed order, then makes one
\* submit_tool_outputs_to_run call carrying one output per tool call, each
\* paired with its tool_call_id and in the same order, and only then polls
\* get_run again; on any other status nothing is executed or submitted.
C11_ToolCallsExecutedAndSubmitted ==
    [][LET new == NewCalls
           ra  == required_action'
       IN  /\ \A k \in 1..Len(new) :
                  new[k].op = "get_run" <=> k = 1 /\ apc = "polling"
           /\ (\E k \in 1..Len(new) :
                   new[k].op \in {"execute", "submit_tool_outputs_to_run"}) =>
                  /\ run_status' = "requires_action"
                  /\ Len(new) <= Len(ra) + 2
                  /\ \A k \in 2..Len(new) :
                         IF k <= Len(ra) + 1
                         THEN new[k] = [op |-> "execute", arg |-> <<ra[k - 1]>>]
                         ELSE /\ new[k].op = "submit_tool_outputs_to_run"
                              /\ Len(new[k].arg) = Len(ra)
                              /\ \A i \in 1..Len(ra) :
                                     new[k].arg[i] =
                                         [tool_call_id |-> ra[i],
                                          output |-> <<"output", ra[i]>>]
           /\ (apc = "polling" /\ apc' = "polling" /\ new # <<>>
                   /\ run_status' = "requires_action") =>
                  /\ Len(new) = Len(ra) + 2
                  /\ tool_call_count' = tool_call_count + Len(ra)
      ]_vars

C11_Witness ==
    /\ apc = "polling"
    /\ run_status = "requires_action"
    /\ required_action = <<"call_a", "call_b">>
    /\ tool_call_count = 2
    /\ Len(calls) >= 4
    /\ calls[Len(calls) - 3].op = "get_run"
    /\ calls[Len(calls) - 2] = Call("execute", <<"call_a">>)
    /\ calls[Len(calls) - 1] = Call("execute", <<"call_b">>)
    /\ calls[Len(calls)].op = "submit_tool_outputs_to_run"

\* C12: when the loop observes the status "failed", or a remote call or the
\* credential setup raises, the function ends by raising that failure
\* unmodified: no retry, no further get_run, no list_messages call and no
\* returned report.
C12_FailurePropagates ==
    [][/\ (run_status' = "failed" /\ NewCalls # <<>>) =>
              /\ apc' = "raised"
              /\ aexc' \in {[type |-> "Exception", message |-> <<"Agent", "run", "failed">>],
                            RemoteError("get_run")}
       /\ aexc' # NoException <=> apc' = "raised"
       /\ apc' = "raised" =>
              /\ response' = <<>>
              /\ calls' # <<>>
              /\ \/ aexc' = RemoteError(calls'[Len(calls')].op)
                 \/ /\ aexc' = [type |-> "Exception",
                                message |-> <<"Agent", "run", "failed">>]
                    /\ run_status' = "failed"
                    /\ calls'[Len(calls')].op = "get_run"
              /\ \A k \in 1..(Len(calls') - 1) : calls'[k].op # "list_messages"
       /\ apc = "raised" =>
              /\ apc' = "raised"
              /\ calls' = calls
              /\ aexc' = aexc
              /\ response' = response
      ]_vars

C12_Witness ==
    /\ apc = "raised"
    /\ run_status = "failed"
    /\ aexc = RunFailed
    /\ response = <<>>
    /\ NumCalls("get_run") = 2
    /\ NumCalls("submit_tool_outputs_to_run") = 1
    /\ NumCalls("list_messages") = 0

\* C13: the polling loop ends only on the statuses "completed" and "failed"
\* (or when a call raises): after any other status, requires_action with
\* its outputs submitted included, the loop polls get_run again, with no
\* timeout and no iteration bound of its own.  So the function returns or
\* raises once the run reports completed or failed, and it is still polling
\* after any number of polls that reported other statuses.
C13_LoopEndsOnlyOnCompletedOrFailed ==
    /\ [](apc # "idle" /\ aexc = NoException
              /\ run_status \notin {"completed", "failed"} => apc = "polling")
    /\ [][apc = "polling" /\ apc' # "polling" =>
              \/ run_status' \in {"completed", "failed"} /\ aexc' \in {NoException, RunFailed}
              \/ NewCalls # <<>> /\ aexc' = RemoteError(calls'[Len(calls')].op)
         ]_vars
    /\ \A n \in 0..(MaxPolls - 1) :
           (apc = "polling" /\ NumCalls("get_run") = n) ~> (NumCalls("get_run") = n + 1)
    /\ (run_status \in {"completed", "failed"}) ~> (apc \in {"returned", "raised"})

C13_Witness ==
    /\ apc = "polling"
    /\ aexc = NoException
    /\ NumCalls("get_run") = MaxPolls
    /\ NumCalls("submit_tool_outputs_to_run") >= 1
    /\ run_status = "expired"

----------------------------------------------------------------------------
(* Further claims on the chaos injector *)

\* the value of the first random.random() call of slot t
FirstSample(t) == trace[t][1].value

\* C14: with chaos enabled one invocation is decided by its first sample p
\* alone: it raises ChaosException if and only if p < error rate, strictly,
\* and then draws no second sample; otherwise it delays if and only if the
\* maximum delay is > 0.  Hence an error rate of 0 never raises, an error
\* rate >= 1 always raises and a maximum delay <= 0 never sleeps.
C14_FirstSampleDecides ==
    \A t \in Slots :
        Loaded(t) /\ config[t][1].CHAOS_ENABLED =>
            LET rate == config[t][1].CHAOS_INJECT_ERROR_RATE
                maxd == config[t][1].CHAOS_DELAY_SECONDS_MAX
                p    == FirstSample(t)
                below == /\ rate.kind = "float"
                         /\ p.num * rate.den < rate.num * p.den
            IN  /\ trace[t] # <<>>
                /\ trace[t][1].op = "random.random"
                /\ Positions(t, "random.random") = {1}
                /\ p.kind = "float" /\ 0 <= p.num /\ p.num < p.den
                /\ Raised(t, "ChaosException") <=> below
                /\ below => Positions(t, "random.uniform") = {} /\ Sleeps(t) = {}
                /\ ~below => /\ NotRaised(t)
                             /\ Sleeps(t) # {} <=> maxd > 0
                             /\ Cardinality(Positions(t, "random.uniform")) =
                                    IF maxd > 0 THEN 1 ELSE 0
                /\ rate = [kind |-> "float", num |-> 0, den |-> 1] => NotRaised(t)
                /\ (rate.kind = "float" /\ rate.num >= rate.den) =>
                       Raised(t, "ChaosException")
                /\ maxd <= 0 => Sleeps(t) = {}

C14_Witness ==
    \E t \in Slots :
        /\ Loaded(t)
        /\ config[t][1].CHAOS_ENABLED
        /\ config[t][1].CHAOS_INJECT_ERROR_RATE.kind = "float"
        /\ FirstSample(t) = config[t][1].CHAOS_INJECT_ERROR_RATE
        /\ config[t][1].CHAOS_DELAY_SECONDS_MAX > 0
        /\ pc[t] = "returned"
        /\ Sleeps(t) # {}

\* the record of slot t
SlotState(t) == <<pc[t], config[t], trace[t], exc[t]>>

\* C15: the delay is cooperative.  An invocation that delays is suspended
\* at its sleep, and while it is suspended the steps of the other tasks go
\* on: an invocation of another task starts, runs and completes without
\* changing or reading the suspended one, the suspended one can complete
\* whatever the others do, and the outcome of each invocation follows from
\* its own configuration load and its own samples.
C15_DelayIsCooperative ==
    /\ [](\A t \in Slots : pc[t] = "sleeping" => ENABLED SleepDone(t))
    /\ [][\A t \in Slots :
             /\ SlotState(t)' # SlotState(t) =>
                    \A s \in Slots \ {t} : SlotState(s)' = SlotState(s)
             /\ Invokes(t) =>
                    /\ Sleeps(t)' # {} <=> pc'[t] = "sleeping"
                    /\ \E r1 \in RandomSamples : \E r2 \in RandomSamples :
                        LET loaded == get_chaos_config(environ)
                            first  == << RandomCall(r1) >>
                        IN  /\ config'[t] = loaded.config
                            /\ SubSeq(trace'[t], 1, 1) = first
                            /\ Raised(t, "ChaosException")' <=>
                                   FloatLT(r1, loaded.config[1].CHAOS_INJECT_ERROR_RATE)
                            /\ \A i \in Sleeps(t)' :
                                   trace'[t][i].value =
                                       uniform(0, loaded.config[1].CHAOS_DELAY_SECONDS_MAX, r2)
             /\ (pc[t] = "sleeping" /\ SlotState(t)' # SlotState(t)) =>
                    SlotState(t)' = <<"returned", config[t], trace[t], exc[t]>>
         ]_vars

C15_Witness ==
    /\ Slots = {1, 2}
    /\ pc[1] = "sleeping"
    /\ config[1][1].CHAOS_INJECT_ERROR_RATE = Finite(1, 10)
    /\ Raised(2, "ChaosException")
    /\ config[2][1].CHAOS_INJECT_ERROR_RATE = One

====
